---- MODULE Spec2Model ----
(***************************************************************************)
(* NMEA bearing reader: an Arduino sketch that feeds the serial bytes of   *)
(* a heading sensor to an NMEA-0183 sentence parser, remembers the last    *)
(* true (HDT) and magnetic (HDM) bearing and shows both, with the compass  *)
(* error, on a 16x2 LCD.  A SELECT button press forgets the bearings.      *)
(*                                                                         *)
(* Two sketches are modelled: NMEA_Bearing_v2.ino ("v2") and the earlier   *)
(* variant src/unnamed/part_000 ("v1"), which has no button and no angle   *)
(* normalisation.  The variable sketch says which one runs.                *)
(*                                                                         *)
(* Floats are fixed-point integers in tenths of a degree (353.6 -> 3536).  *)
(* Strings are sequences of one-character strings.                         *)
(***************************************************************************)
EXTENDS Integers, Sequences, FiniteSets, TLC

VARIABLES
    sketch,            \* which sketch is flashed: "v2" or "v1"
    rx,                \* bytes waiting in the hardware serial RX buffer
    nmeaParser,        \* the NmeaParser object
    bearingM,          \* float bearingM
    bearingT,          \* float bearingT
    resetButtonDown,   \* bool resetButtonDown
    buttonWas,         \* byte buttonWas (last ReadButtons result)
    lcd,               \* what the LCD shows
    diff,              \* the local float diff of the last UpdateLcd
    updatedM,          \* history: an HDM value was stored since start/reset
    updatedT,          \* history: an HDT value was stored since start/reset
    ev                 \* history: what the last handler step did

vars == <<sketch, rx, nmeaParser, bearingM, bearingT, resetButtonDown,
          buttonWas, lcd, diff,
          updatedM, updatedT, ev>>

-----------------------------------------------------------------------------
(* Bounds of the model *)

\* maximum number of body characters the parser buffers
MaxBufLen == 11

\* number of equally spaced angles drawn for the angle-normalisation runs
NAngles == 24

-----------------------------------------------------------------------------
(* Characters *)

CR == "\r"
LF == "\n"

Digits == <<"0", "1", "2", "3", "4", "5", "6", "7", "8", "9">>
HexDigits == Digits \o <<"A", "B", "C", "D", "E", "F">>

RECURSIVE IndexOf(_, _, _)
IndexOf(seq, c, i) ==
    IF i > Len(seq) THEN 0
    ELSE IF seq[i] = c THEN i
    ELSE IndexOf(seq, c, i + 1)

IsDigit(c) == IndexOf(Digits, c, 1) # 0
DigitVal(c) == IndexOf(Digits, c, 1) - 1
IsHex(c) == IndexOf(HexDigits, c, 1) # 0
HexVal(c) == IndexOf(HexDigits, c, 1) - 1

\* ASCII code of the characters that occur on the wire
Ascii(c) ==
    CASE IsDigit(c) -> 48 + DigitVal(c)
      [] c = "A" -> 65 [] c = "B" -> 66 [] c = "C" -> 67 [] c = "D" -> 68
      [] c = "E" -> 69 [] c = "F" -> 70 [] c = "G" -> 71 [] c = "H" -> 72
      [] c = "M" -> 77 [] c = "T" -> 84 [] c = "x" -> 120
      [] c = "$" -> 36 [] c = "*" -> 42 [] c = "," -> 44 [] c = "-" -> 45
      [] c = "." -> 46 [] c = CR -> 13 [] c = LF -> 10

RECURSIVE Xor(_, _)
Xor(a, b) ==
    IF a = 0 THEN b
    ELSE IF b = 0 THEN a
    ELSE (((a % 2) + (b % 2)) % 2) + 2 * Xor(a \div 2, b \div 2)

-----------------------------------------------------------------------------
(* NmeaParser (NmeaParser.h): the byte-at-a-time sentence parser.          *)
(* state: Idle, Body, Checksum, Terminator.  buffer: the body between '$'  *)
(* and '*'.  xorAcc: XOR of the body bytes so far.  ck: the checksum       *)
(* characters read so far.  sentence, checksumValid: the last completed    *)
(* sentence.                                                               *)

NewParser ==
    [state |-> "Idle", buffer |-> <<>>, xorAcc |-> 0, ck |-> <<>>,
     sentence |-> <<>>, checksumValid |-> FALSE]

\* '$': clear the accumulation buffer and start a body
StartBody(p) ==
    [p EXCEPT !.state = "Body", !.buffer = <<>>, !.xorAcc = 0, !.ck = <<>>]

\* framing error: discard the accumulated data, resynchronise to Idle
Abort(p) ==
    [p EXCEPT !.state = "Idle", !.buffer = <<>>, !.xorAcc = 0, !.ck = <<>>]

\* store the framed body as the last completed sentence
Finalize(p) ==
    [p EXCEPT !.state = "Idle", !.buffer = <<>>, !.xorAcc = 0, !.ck = <<>>,
              !.sentence = p.buffer,
              !.checksumValid =
                  (16 * HexVal(p.ck[1]) + HexVal(p.ck[2]) = p.xorAcc)]

\* feed one byte; ret is the boolean the call returns
doNext(p, c) ==
    CASE p.state = "Idle" ->
           IF c = "$" THEN [p |-> StartBody(p), ret |-> FALSE]
           ELSE [p |-> p, ret |-> FALSE]
      [] p.state = "Body" ->
           IF c = "*" THEN [p |-> [p EXCEPT !.state = "Checksum"], ret |-> FALSE]
           ELSE IF c = "$" THEN [p |-> StartBody(p), ret |-> FALSE]
           ELSE IF Len(p.buffer) >= MaxBufLen THEN [p |-> Abort(p), ret |-> FALSE]
           ELSE [p |-> [p EXCEPT !.buffer = Append(@, c),
                                 !.xorAcc = Xor(@, Ascii(c))],
                 ret |-> FALSE]
      [] p.state = "Checksum" ->
           IF c = "$" THEN [p |-> StartBody(p), ret |-> FALSE]
           ELSE IF ~IsHex(c) THEN [p |-> Abort(p), ret |-> FALSE]
           ELSE IF Len(p.ck) = 0 THEN [p |-> [p EXCEPT !.ck = <<c>>], ret |-> FALSE]
           ELSE [p |-> [p EXCEPT !.ck = Append(@, c), !.state = "Terminator"],
                 ret |-> FALSE]
      [] p.state = "Terminator" ->
           IF c = CR THEN [p |-> p, ret |-> FALSE]
           ELSE IF c = "$" THEN [p |-> StartBody(Finalize(p)), ret |-> TRUE]
           ELSE [p |-> Finalize(p), ret |-> TRUE]

\* type code: characters 3..5 of the body, empty if the body is shorter
getMessageDescription(p) ==
    IF Len(p.sentence) >= 5 THEN SubSeq(p.sentence, 3, 5) ELSE <<>>

\* the body after the five-character id, split on commas
RECURSIVE Split(_, _, _)
Split(s, i, cur) ==
    IF i > Len(s) THEN <<cur>>
    ELSE IF s[i] = "," THEN <<cur>> \o Split(s, i + 1, <<>>)
    ELSE Split(s, i + 1, Append(cur, s[i]))

Terms(p) == Split(SubSeq(p.sentence, 6, Len(p.sentence)), 1, <<>>)

\* the i-th term (0-indexed), empty when out of range
getTerm(p, i) ==
    IF i + 1 <= Len(Terms(p)) THEN Terms(p)[i + 1] ELSE <<>>

-----------------------------------------------------------------------------
(* String::toFloat (atof): optional sign, digits, optional fraction; the   *)
(* conversion stops at the first character that does not fit and yields 0  *)
(* when no number starts the string.  Result in tenths of a degree.        *)

RECURSIVE DigitsPrefix(_)
DigitsPrefix(s) ==
    IF Len(s) > 0 /\ IsDigit(s[1]) THEN <<s[1]>> \o DigitsPrefix(Tail(s))
    ELSE <<>>

RECURSIVE IntOf(_)
IntOf(ds) ==
    IF Len(ds) = 0 THEN 0
    ELSE 10 * IntOf(SubSeq(ds, 1, Len(ds) - 1)) + DigitVal(ds[Len(ds)])

Drop(s, n) == SubSeq(s, n + 1, Len(s))

toFloat(s) ==
    LET neg   == Len(s) > 0 /\ s[1] = "-"
        body  == IF neg THEN Tail(s) ELSE s
        ip    == DigitsPrefix(body)
        after == Drop(body, Len(ip))
        fp    == IF Len(after) > 0 /\ after[1] = "."
                 THEN DigitsPrefix(Tail(after)) ELSE <<>>
        mag   == 10 * IntOf(ip) + (IF Len(fp) > 0 THEN DigitVal(fp[1]) ELSE 0)
    IN  IF Len(ip) = 0 /\ Len(fp) = 0 THEN 0
        ELSE IF neg THEN 0 - mag ELSE mag

-----------------------------------------------------------------------------
(* Angles, in tenths of a degree *)

HalfTurn == 1800
FullTurn == 3600

\* the value of an unset bearing: float bearingM = -1
Unset == 0 - 10

\* C fmod: the remainder has the sign of the dividend
fmod(x, y) == IF x >= 0 THEN x % y ELSE 0 - ((0 - x) % y)

\* variant without the correction of a negative remainder
ConstrainAngleNoFix(x) == fmod(x + HalfTurn, FullTurn) - HalfTurn

ConstrainAngle(x) ==
    LET x1 == fmod(x + HalfTurn, FullTurn)
        x2 == IF x1 < 0 THEN x1 + FullTurn ELSE x1
    IN  x2 - HalfTurn

abs(x) == IF x > 0 THEN x ELSE 0 - x

Blank == [blank |-> TRUE, num |-> 0]
Shown(x) == [blank |-> FALSE, num |-> x]

DIFF_POSITIVE_CHAR == "W"
DIFF_NEGATIVE_CHAR == "E"
SPACE_CHAR == " "
BLANK_NUMBER_CHAR == "-"

\* the local float diff of UpdateLcd; set is FALSE when a bearing is unset.
\* NMEA_Bearing_v2.ino: float diff = ConstrainAngle(bearingM - bearingT);
DiffV2(m, t) ==
    IF t < 0 \/ m < 0 THEN [set |-> FALSE, val |-> 0]
    ELSE [set |-> TRUE, val |-> ConstrainAngle(m - t)]

\* the earlier sketch: float diff = bearingM - bearingT;
DiffV1(m, t) ==
    IF t < 0 \/ m < 0 THEN [set |-> FALSE, val |-> 0]
    ELSE [set |-> TRUE, val |-> m - t]

Diff(sk, m, t) == IF sk = "v2" THEN DiffV2(m, t) ELSE DiffV1(m, t)

\* UpdateLcd: the magnetic row, the true row and the ERROR field
UpdateLcd(sk, m, t) ==
    LET d == Diff(sk, m, t)
    IN  [m    |-> IF m < 0 THEN Blank ELSE Shown(m),
         t    |-> IF t < 0 THEN Blank ELSE Shown(t),
         sign |-> IF ~d.set THEN BLANK_NUMBER_CHAR
                  ELSE IF d.val > 0 THEN DIFF_POSITIVE_CHAR
                  ELSE IF d.val < 0 THEN DIFF_NEGATIVE_CHAR
                  ELSE SPACE_CHAR,
         err  |-> IF ~d.set THEN Blank ELSE Shown(abs(d.val))]

-----------------------------------------------------------------------------
(* Buttons of the LCD shield, read from one ADC pin *)

RIGHT_10BIT_ADC == 0
UP_10BIT_ADC == 145
DOWN_10BIT_ADC == 329
LEFT_10BIT_ADC == 505
SELECT_10BIT_ADC == 741
BUTTONHYSTERESIS == 10

BUTTON_NONE == 0
BUTTON_RIGHT == 1
BUTTON_UP == 2
BUTTON_DOWN == 3
BUTTON_LEFT == 4
BUTTON_SELECT == 5

\* ADC readings the environment produces: LEFT, and the two edges of the
\* SELECT window from inside and from outside
Voltages ==
    {LEFT_10BIT_ADC,
     SELECT_10BIT_ADC - BUTTONHYSTERESIS - 1,
     SELECT_10BIT_ADC - BUTTONHYSTERESIS,
     SELECT_10BIT_ADC + BUTTONHYSTERESIS,
     SELECT_10BIT_ADC + BUTTONHYSTERESIS + 1}

Within(v, centre) ==
    v >= centre - BUTTONHYSTERESIS /\ v <= centre + BUTTONHYSTERESIS

\* the button ReadButtons senses for an ADC reading
ButtonOf(buttonVoltage) ==
    IF buttonVoltage < RIGHT_10BIT_ADC + BUTTONHYSTERESIS THEN BUTTON_RIGHT
    ELSE IF Within(buttonVoltage, UP_10BIT_ADC) THEN BUTTON_UP
    ELSE IF Within(buttonVoltage, DOWN_10BIT_ADC) THEN BUTTON_DOWN
    ELSE IF Within(buttonVoltage, LEFT_10BIT_ADC) THEN BUTTON_LEFT
    ELSE IF Within(buttonVoltage, SELECT_10BIT_ADC) THEN BUTTON_SELECT
    ELSE BUTTON_NONE

\* ReadButtons: the button returned, which is also saved in buttonWas.
\* (The flags buttonJustPressed and buttonJustReleased it also sets are
\* read nowhere in the sketch and are left out.)
ReadButtons(buttonVoltage) ==
    LET button == ButtonOf(buttonVoltage)
    IN  [button |-> button, buttonWas |-> button]

-----------------------------------------------------------------------------
(* The handlers, as functions of the state they read *)

HDT == <<"H", "D", "T">>
HDM == <<"H", "D", "M">>
HDG == <<"H", "D", "G">>

\* variant that converts an empty term too
DispatchNoEmptyCheck(ret, desc, newValue, m, t) ==
    IF ~ret THEN [m |-> m, t |-> t, shouldUpdateLcd |-> FALSE]
    ELSE IF desc = HDT
    THEN [m |-> m, t |-> toFloat(newValue), shouldUpdateLcd |-> TRUE]
    ELSE IF desc = HDM
    THEN [m |-> toFloat(newValue), t |-> t, shouldUpdateLcd |-> TRUE]
    ELSE [m |-> m, t |-> t, shouldUpdateLcd |-> FALSE]

\* variant that takes every sentence other than HDT for a magnetic heading
DispatchAnyOther(ret, desc, newValue, m, t) ==
    IF ~ret \/ newValue = <<>> THEN [m |-> m, t |-> t, shouldUpdateLcd |-> FALSE]
    ELSE IF desc = HDT
    THEN [m |-> m, t |-> toFloat(newValue), shouldUpdateLcd |-> TRUE]
    ELSE [m |-> toFloat(newValue), t |-> t, shouldUpdateLcd |-> TRUE]

\* variant that dispatches on every byte, whatever doNext returned
DispatchEveryByte(ret, desc, newValue, m, t) ==
    IF desc = HDT /\ newValue # <<>>
    THEN [m |-> m, t |-> toFloat(newValue), shouldUpdateLcd |-> TRUE]
    ELSE IF desc = HDM /\ newValue # <<>>
    THEN [m |-> toFloat(newValue), t |-> t, shouldUpdateLcd |-> TRUE]
    ELSE [m |-> m, t |-> t, shouldUpdateLcd |-> FALSE]

\* serialEvent, the body of if (nmeaParser.doNext(inChar)): the bearings
\* after the byte and the local shouldUpdateLcd
Dispatch(ret, desc, newValue, m, t) ==
    IF ~ret THEN [m |-> m, t |-> t, shouldUpdateLcd |-> FALSE]
    ELSE IF desc = HDT THEN
        IF newValue # <<>>
        THEN [m |-> m, t |-> toFloat(newValue), shouldUpdateLcd |-> TRUE]
        ELSE [m |-> m, t |-> t, shouldUpdateLcd |-> FALSE]
    ELSE IF desc = HDM THEN
        IF newValue # <<>>
        THEN [m |-> toFloat(newValue), t |-> t, shouldUpdateLcd |-> TRUE]
        ELSE [m |-> m, t |-> t, shouldUpdateLcd |-> FALSE]
    ELSE [m |-> m, t |-> t, shouldUpdateLcd |-> FALSE]

\* variant that never redraws
RefreshNever(shouldUpdateLcd, sk, m, t, shown) == shown

\* serialEvent: if (shouldUpdateLcd) UpdateLcd();
RefreshIf(shouldUpdateLcd, sk, m, t, shown) ==
    IF shouldUpdateLcd
    THEN [lcd |-> UpdateLcd(sk, m, t), diff |-> Diff(sk, m, t)]
    ELSE shown

\* variant that forgets the magnetic bearing only
ResetMagneticOnly(sk, m, t) ==
    [m |-> Unset, t |-> t,
     lcd |-> UpdateLcd(sk, Unset, t), diff |-> Diff(sk, Unset, t)]

\* Reset: forget both bearings and redraw
Reset(sk, m, t) ==
    LET m1 == Unset
        t1 == Unset
    IN  [m |-> m1, t |-> t1,
         lcd |-> UpdateLcd(sk, m1, t1), diff |-> Diff(sk, m1, t1)]

\* variant without the edge detection: resets while SELECT is held
loopLevel(button, down) ==
    [down |-> button = BUTTON_SELECT, reset |-> button = BUTTON_SELECT]

\* loop: the SELECT edge detector; reset says whether Reset() is called
loop(button, down) ==
    IF button = BUTTON_SELECT /\ ~down THEN [down |-> TRUE, reset |-> TRUE]
    ELSE IF button # BUTTON_SELECT /\ down THEN [down |-> FALSE, reset |-> FALSE]
    ELSE [down |-> down, reset |-> FALSE]

-----------------------------------------------------------------------------
(* What the heading sensor sends *)

RECURSIVE ChecksumOf(_)
ChecksumOf(body) ==
    IF Len(body) = 0 THEN 0
    ELSE Xor(Ascii(body[1]), ChecksumOf(Tail(body)))

Hex2(n) == <<HexDigits[(n \div 16) + 1], HexDigits[(n % 16) + 1]>>

\* a framed sentence with its correct checksum
Frame(body) == <<"$">> \o body \o <<"*">> \o Hex2(ChecksumOf(body)) \o <<CR, LF>>

\* the same with a checksum that does not match
BadFrame(body) ==
    <<"$">> \o body \o <<"*">> \o Hex2((ChecksumOf(body) + 1) % 256) \o <<CR, LF>>

TermTexts ==
    {<<>>, <<"0">>, <<"0", ".", "8">>, <<"3", "5", "3", ".", "6">>,
     <<"-", "1">>, <<"x">>}

Body(type, term) == <<"H", "E">> \o type \o <<",">> \o term

\* a body longer than the parser's buffer
LongBody == Body(HDT, <<"0", ".", "8">>) \o [i \in 1..(MaxBufLen - 7) |-> "0"]

Frames ==
    {Frame(Body(type, term)) : type \in {HDT, HDM}, term \in TermTexts}
    \cup {Frame(Body(HDG, <<"0", ".", "8">>)),
          Frame(Body(HDT, <<"0", ".", "8", ",", "T">>)),
          Frame(<<"H", "E">>),
          Frame(LongBody),
          BadFrame(Body(HDM, <<"0", ".", "8">>)),
          \* a sentence cut off in its body, and one cut off before CR LF
          <<"$">> \o Body(HDT, <<"0">>),
          <<"$">> \o Body(HDM, <<"0">>) \o <<"*">> \o Hex2(ChecksumOf(Body(HDM, <<"0">>))),
          \* line noise
          <<"x", "*", LF>>}

\* the angles drawn for the angle-normalisation runs: NAngles equally
\* spaced headings in [0, 360) and the two headings of the sketch's comment
AngleGrid ==
    {(k * FullTurn) \div NAngles : k \in 0..(NAngles - 1)} \cup {8, 3536}

-----------------------------------------------------------------------------
(* State machine *)

STARTUP_MSG == "Starting..."

Boot(m, t) ==
    /\ sketch \in {"v2", "v1"}
    /\ rx = <<>>
    /\ nmeaParser = NewParser
    /\ bearingM = m
    /\ bearingT = t
    /\ resetButtonDown = FALSE
    /\ buttonWas = BUTTON_NONE
    /\ lcd = [text |-> STARTUP_MSG]
    /\ diff = [set |-> FALSE, val |-> 0]
    /\ updatedM = FALSE
    /\ updatedT = FALSE
    /\ ev = [kind |-> "boot", ret |-> FALSE,
             shouldUpdateLcd |-> FALSE, reset |-> FALSE]

\* the globals as initialised, the LCD showing the startup message
Init == Boot(Unset, Unset)

Running == ev.kind # "boot"

\* setup: ends with UpdateLcd()
Setup ==
    /\ ev.kind = "boot"
    /\ lcd' = UpdateLcd(sketch, bearingM, bearingT)
    /\ diff' = Diff(sketch, bearingM, bearingT)
    /\ ev' = [ev EXCEPT !.kind = "setup"]
    /\ UNCHANGED <<sketch, rx, nmeaParser, bearingM, bearingT, resetButtonDown,
                   buttonWas, updatedM, updatedT>>

\* the sensor sends a chunk of bytes into the empty RX buffer
Receive ==
    /\ Running
    /\ rx = <<>>
    /\ \E f \in Frames : rx' = f
    /\ UNCHANGED <<sketch, nmeaParser, bearingM, bearingT, resetButtonDown,
                   buttonWas, lcd, diff,
                   updatedM, updatedT, ev>>

\* serialEvent: one iteration of while (Serial.available())
SerialEvent ==
    /\ Running
    /\ rx # <<>>
    /\ LET inChar == Head(rx)
           r == doNext(nmeaParser, inChar)
           d == Dispatch(r.ret, getMessageDescription(r.p), getTerm(r.p, 1),
                         bearingM, bearingT)
           shown == RefreshIf(d.shouldUpdateLcd, sketch, d.m, d.t,
                              [lcd |-> lcd, diff |-> diff])
       IN  /\ rx' = Tail(rx)
           /\ nmeaParser' = r.p
           /\ bearingM' = d.m
           /\ bearingT' = d.t
           /\ lcd' = shown.lcd
           /\ diff' = shown.diff
           /\ updatedM' = (updatedM \/ (r.ret /\ getMessageDescription(r.p) = HDM
                                        /\ getTerm(r.p, 1) # <<>>))
           /\ updatedT' = (updatedT \/ (r.ret /\ getMessageDescription(r.p) = HDT
                                        /\ getTerm(r.p, 1) # <<>>))
           /\ ev' = [kind |-> "byte", ret |-> r.ret,
                     shouldUpdateLcd |-> d.shouldUpdateLcd, reset |-> FALSE]
    /\ UNCHANGED <<sketch, resetButtonDown, buttonWas>>

\* loop of the v2 sketch: read the buttons, reset on a SELECT press.
\* (The loop of the v1 sketch is empty.)
Loop ==
    /\ Running
    /\ sketch = "v2"
    /\ \E buttonVoltage \in Voltages :
         LET b == ReadButtons(buttonVoltage)
             l == loop(b.button, resetButtonDown)
             z == Reset(sketch, bearingM, bearingT)
         IN  /\ buttonWas' = b.buttonWas
             /\ resetButtonDown' = l.down
             /\ bearingM' = IF l.reset THEN z.m ELSE bearingM
             /\ bearingT' = IF l.reset THEN z.t ELSE bearingT
             /\ lcd' = IF l.reset THEN z.lcd ELSE lcd
             /\ diff' = IF l.reset THEN z.diff ELSE diff
             /\ updatedM' = IF l.reset THEN FALSE ELSE updatedM
             /\ updatedT' = IF l.reset THEN FALSE ELSE updatedT
             /\ ev' = [kind |-> "loop", ret |-> FALSE,
                       shouldUpdateLcd |-> FALSE, reset |-> l.reset]
    /\ UNCHANGED <<sketch, rx, nmeaParser>>

Next == Setup \/ Receive \/ SerialEvent \/ Loop

Spec == Init /\ [][Next]_vars

\* the inputs of the angle normalisation drawn from AngleGrid; setup then
\* computes and shows their compass error
InitAngle == \E m \in AngleGrid, t \in AngleGrid : Boot(m, t)

NextAngle == Setup

SpecAngle == InitAngle /\ [][NextAngle]_vars

-----------------------------------------------------------------------------
(* Properties *)

\* the type code and term(1) of the last completed sentence
desc == getMessageDescription(nmeaParser)
newValue == getTerm(nmeaParser, 1)

\* a step of serialEvent (one byte read), and a step of loop
ByteStep == rx # <<>> /\ rx' = Tail(rx) /\ ev'.kind = "byte"
LoopStep == rx' = rx /\ ev'.kind = "loop"

\* the text is a complete decimal number: [-]digits[.digits]
IsNumber(s) ==
    LET body  == IF Len(s) > 0 /\ s[1] = "-" THEN Tail(s) ELSE s
        ip    == DigitsPrefix(body)
        after == Drop(body, Len(ip))
        fp    == IF Len(after) > 0 /\ after[1] = "."
                 THEN DigitsPrefix(Tail(after)) ELSE <<>>
        used  == Len(ip) + (IF Len(after) > 0 /\ after[1] = "." THEN 1 + Len(fp) ELSE 0)
    IN  (Len(ip) > 0 \/ Len(fp) > 0) /\ used = Len(body)

T3536 == toFloat(<<"3", "5", "3", ".", "6">>)
T8 == toFloat(<<"0", ".", "8">>)

\* C1: whenever both bearings are set, the compass error computed and shown
\* is ConstrainAngle(bearingM - bearingT), in every sketch.
C1_ErrorIsNormalized ==
    (Running /\ bearingM >= 0 /\ bearingT >= 0) =>
        /\ diff = [set |-> TRUE, val |-> ConstrainAngle(bearingM - bearingT)]
        /\ lcd.err = Shown(abs(ConstrainAngle(bearingM - bearingT)))

C3_ParseFailureKeepsBearing ==
    [][(ByteStep /\ ev'.ret /\ newValue' # <<>> /\ ~IsNumber(newValue')) =>
          /\ (desc' = HDT => bearingT' = bearingT)
          /\ (desc' = HDM => bearingM' = bearingM)]_vars

\* C4: a completed HDT (HDM) sentence with an empty term(1) leaves bearingT
\* (bearingM) unchanged and triggers no display refresh.
C4_EmptyTermIgnored ==
    [][(ByteStep /\ ev'.ret /\ desc' \in {HDT, HDM} /\ newValue' = <<>>) =>
          /\ bearingT' = bearingT
          /\ bearingM' = bearingM
          /\ ~ev'.shouldUpdateLcd
          /\ lcd' = lcd]_vars

C4_Witness ==
    /\ ev.kind = "byte" /\ ev.ret
    /\ desc = HDT /\ newValue = <<>>
    /\ bearingT = T3536 /\ bearingM = Unset
    /\ ~ev.shouldUpdateLcd

\* C5: on a byte, bearingT changes only if a sentence completed with type
\* HDT and bearingM only if one completed with type HDM.
C5_DispatchFrame ==
    [][ByteStep =>
          /\ (bearingT' # bearingT => (ev'.ret /\ desc' = HDT))
          /\ (bearingM' # bearingM => (ev'.ret /\ desc' = HDM))]_vars

C5_Witness ==
    /\ ev.kind = "byte" /\ ev.ret
    /\ desc = HDG /\ newValue = <<"0", ".", "8">>
    /\ bearingT = T3536 /\ bearingM = Unset

\* C6: Reset, from any reachable state, leaves both bearings and the compass
\* error unset; a second Reset changes nothing more; and the state after a
\* loop iteration that called Reset is that result.
C6_ResetClears ==
    LET z == Reset(sketch, bearingM, bearingT)
    IN  /\ z.t < 0 /\ z.m < 0
        /\ z.lcd.t.blank /\ z.lcd.m.blank /\ z.lcd.err.blank /\ ~z.diff.set
        /\ Reset(sketch, z.m, z.t) = z
        /\ ev.reset =>
              z = [m |-> bearingM, t |-> bearingT, lcd |-> lcd, diff |-> diff]

C6_Witness ==
    /\ ev.reset
    /\ nmeaParser.sentence = Body(HDT, <<"3", "5", "3", ".", "6">>)
    /\ updatedT = FALSE /\ lcd.t.blank

\* C7: a bearing reads as unset exactly if no HDT/HDM update of it was
\* accepted since the start or the last reset, and the compass error is
\* absent exactly if one of the two reads as unset.
C7_UnsetIffNoUpdate ==
    Running =>
        /\ lcd.t.blank <=> ~updatedT
        /\ lcd.m.blank <=> ~updatedM
        /\ lcd.err.blank <=> ~(updatedT /\ updatedM)

\* C8: a byte on which doNext returns false changes neither bearing.
C8_NoChangeUnlessCompleted ==
    [][(ByteStep /\ ~ev'.ret) =>
          (bearingT' = bearingT /\ bearingM' = bearingM)]_vars

\* the byte that overflows the buffer has just been read
C8_Witness ==
    /\ ev.kind = "byte" /\ ~ev.ret
    /\ rx = Drop(Frame(LongBody), MaxBufLen + 2)
    /\ nmeaParser.state = "Idle"
    /\ bearingT = T3536

\* C9: an iteration of loop calls Reset exactly if it reads SELECT and the
\* previous iteration did not.
C9_ResetOnPressEdge ==
    [][LoopStep =>
          (ev'.reset <=>
              (buttonWas' = BUTTON_SELECT /\ buttonWas # BUTTON_SELECT))]_vars

\* SELECT still held, a bearing received meanwhile is not reset
C9_Witness ==
    /\ ev.kind = "loop" /\ ~ev.reset
    /\ buttonWas = BUTTON_SELECT /\ resetButtonDown
    /\ bearingT = T3536

====
